---------------------------- MODULE Spec2Model ----------------------------
(***************************************************************************)
(* A model of graphgen.py: the batched graph container (Graph), the        *)
(* message-passing round (Propagator), the two decision procedures         *)
(* (NodeAdder, EdgeAdder) and the orchestrating loop (GraphGen.forward).   *)
(*                                                                         *)
(* Continuous quantities are abstracted: a node state is the number of     *)
(* recurrent-cell updates applied to it, an edge feature is the index of   *)
(* the embedding row it was initialised from, the unreduced loss of batch   *)
(* element b is the symbol b, a sum is the set of its summands and a mean  *)
(* is kept as summands and denominator.                                    *)
(* Every sampled decision is a nondeterministic choice over the classes    *)
(* to which the sampler gives a non-zero probability.  Division of integer *)
(* tensors is the floor division of the PyTorch the module was written for.*)
(***************************************************************************)
EXTENDS Integers, Sequences, FiniteSets

(***************************************************************************)
(* Bounds of the model.                                                    *)
(***************************************************************************)
\* batch elements of one pass
BatchSize == 2
\* node types of the model instance (classes are terminate, 1..n_node_types)
n_node_types == 1
\* edge types of the model instance
n_edge_dtypes == 2
\* the configurations explored: the node cap (or rounds explored without a
\* cap) plus the edge cap (or edge steps explored without a cap)
CapBudget == 3

(***************************************************************************)
(* Program constants.                                                      *)
(***************************************************************************)
pad_char == 255
propagate_steps == 2
\* range of torch.uint8
ByteRange == 256
\* Python's None where an integer is expected
None == -1

Batch == 0 .. (BatchSize - 1)
Min0(x) == IF x < 0 THEN 0 ELSE x

\* tensor.any() of a [batch] mask
Any(m) == \E b \in Batch : m[b]
\* mask.long().sum()
Count(m) == Cardinality({b \in Batch : m[b]})
\* position of element b among the true entries of the mask (mask.nonzero())
Rank(b, m) == Cardinality({c \in Batch : c < b /\ m[c]})
\* the batch elements a boolean-mask index t[mask] keeps, in batch order
Nonzero(m) == [k \in 1 .. Count(m) |-> CHOOSE b \in Batch : m[b] /\ Rank(b, m) = k - 1]
\* t[mask] for a per-element tensor t
Masked(t, m) == [k \in 1 .. Count(m) |-> t[Nonzero(m)[k]]]

RECURSIVE PicksUpTo(_, _)
PicksUpTo(cand, n) ==
    IF n = 0 THEN {<< >>}
    ELSE {[b \in 0 .. (n - 1) |-> IF b = n - 1 THEN c ELSE p[b]] :
             p \in PicksUpTo(cand, n - 1), c \in cand[n - 1]}
\* the per-element tensors t with t[b] in cand[b] for every batch element b
Picks(cand) == PicksUpTo(cand, BatchSize)

(***************************************************************************)
(* Graph                                                                   *)
(***************************************************************************)
TensorFields == {"nodes", "node_types", "edge_source", "edge_dest", "edge_features",
                 "edge_types", "owner_masks", "last_inserted_node", "running"}

\* Graph.__init__: an empty graph, every batch element running.  `absent'
\* holds the names of the tensor fields whose value is None.
Graph(batch) ==
    [ nodes              |-> << >>,
      node_types         |-> << >>,
      edge_source        |-> << >>,
      edge_dest          |-> << >>,
      edge_features      |-> << >>,
      edge_types         |-> << >>,
      owner_masks        |-> [b \in batch |-> << >>],
      last_inserted_node |-> [b \in batch |-> 0],
      running            |-> [b \in batch |-> TRUE],
      absent             |-> {} ]

\* the value of a Graph attribute that was never set or is None
NoGraph == [absent |-> TensorFields]

needed == {"node_types", "edge_source", "edge_dest", "edge_types", "owner_masks"}

\* (a variant that carries over the node and edge lists but not the owners)
get_final_graph_unowned(g) ==
    [ nodes              |-> << >>,
      node_types         |-> g.node_types,
      edge_source        |-> g.edge_source,
      edge_dest          |-> g.edge_dest,
      edge_features      |-> << >>,
      edge_types         |-> g.edge_types,
      owner_masks        |-> [b \in Batch |-> << >>],
      last_inserted_node |-> [b \in Batch |-> 0],
      running            |-> [b \in Batch |-> FALSE],
      absent             |-> (TensorFields \ needed) \cup {"owner_masks"} ]

\* Graph.get_final_graph: a fresh Graph that keeps the needed tensors and
\* holds None for every other tensor field.
get_final_graph(g) ==
    [ nodes              |-> << >>,
      node_types         |-> g.node_types,
      edge_source        |-> g.edge_source,
      edge_dest          |-> g.edge_dest,
      edge_features      |-> << >>,
      edge_types         |-> g.edge_types,
      owner_masks        |-> g.owner_masks,
      last_inserted_node |-> [b \in Batch |-> 0],
      running            |-> [b \in Batch |-> FALSE],
      absent             |-> TensorFields \ needed ]

NumNodes(g) == Len(g.nodes)
NumEdges(g) == Len(g.edge_source)
\* the batch elements whose owner-mask row is true at global node n (0-based)
Owners(g, n) == {b \in Batch : g.owner_masks[b][n + 1]}
\* the global indices of the nodes owned by batch element b
Owned(g, b) == {n \in 0 .. (NumNodes(g) - 1) : g.owner_masks[b][n + 1]}


(***************************************************************************)
(* Helper functions of the module                                          *)
(***************************************************************************)
\* the unreduced loss (reduction="none") of a decision: one entry per
\* batch element, the entry of element b being the symbol b
Unreduced == [b \in Batch |-> {b}]

\* (a variant whose mean divides by the number of running elements)
loss_running_gate_live(l, running) ==
    [ summands |-> UNION {l[b] : b \in {c \in DOMAIN l : running[c]}},
      den      |-> Cardinality({c \in DOMAIN l : running[c]}) ]

\* loss_running_gate: torch.where(running, l, 0).mean() over the [batch]
\* tensor l.  The gated tensor holds l[b] or zero (no summand); the mean
\* divides the sum of its entries by the number of its entries.
loss_running_gate(l, running) ==
    LET gated == [b \in DOMAIN l |-> IF running[b] THEN l[b] ELSE {}]
    IN  [ summands |-> UNION {gated[b] : b \in DOMAIN gated},
          den      |-> Cardinality(DOMAIN gated) ]

\* masked_cross_entropy_loss and masked_bce_loss: the unreduced loss of the
\* decision, gated by `enabled'
masked_loss(kind, enabled) ==
    [ kind |-> kind, enabled |-> enabled,
      mean |-> loss_running_gate(Unreduced, enabled) ]

\* the transforms given to remap_pad: the default x+1 on a uint8 tensor, and
\* the identity on a long tensor
Inc8 == [x \in 0 .. (ByteRange - 1) |-> (x + 1) % ByteRange]
\* (a variant that shifts the edge type like a node label)
Ident_shift == [x \in Nat |-> x + 1]
Ident == [x \in Nat |-> x]

\* (a variant that transforms the pad value like any other label)
remap_pad_all(t, pad, transform) == transform[t]

\* remap_pad on one entry: torch.where(t != pad_char, transform(t), 0)
remap_pad(t, pad, transform) == IF t # pad THEN transform[t] ELSE 0

\* t.byte() - 1 in uint8 arithmetic
ByteMinus1(x) == ((x % ByteRange) + ByteRange - 1) % ByteRange

\* sample_softmax over the class logits of one batch element: the classes
\* the sample can return are those whose logit is not -inf.
sample_softmax(classes, minus_inf) == classes \ minus_inf

\* (a variant without the owner mask)
masked_softmax_open(g, b) == 0 .. (NumNodes(g) * n_edge_dtypes - 1)

\* masked_softmax for batch element b over the flat [n_nodes * n_edge_dtypes]
\* logits: mask_softmax_input sets the entries whose owner-mask bit is false
\* to -inf (owner_mask_expanded[b][f] = owner_masks[b][f div n_edge_dtypes]).
masked_softmax(g, b) ==
    LET flat == 0 .. (NumNodes(g) * n_edge_dtypes - 1)
    IN  sample_softmax(flat, {f \in flat : ~ g.owner_masks[b][(f \div n_edge_dtypes) + 1]})

(***************************************************************************)
(* Propagator                                                              *)
(***************************************************************************)
\* (a variant that ignores the mask)
node_update_mask_all(g, mask) == [n \in 1 .. NumNodes(g) |-> TRUE]

\* Propagator._node_update_mask: the nodes owned by an active batch element
node_update_mask(g, mask) ==
    [n \in 1 .. NumNodes(g) |-> \E b \in Batch : mask[b] /\ g.owner_masks[b][n]]

\* (a variant without the early return)
Propagator_unguarded(g, mask) ==
    [g EXCEPT !.nodes = [n \in 1 .. NumNodes(g) |->
                            IF node_update_mask(g, mask)[n] THEN g.nodes[n] + 1
                            ELSE g.nodes[n]]]

\* Propagator.forward: one message-passing round.  The recurrent cell gives
\* every node a new state; torch.where keeps it for the masked nodes only.
Propagator(g, mask) ==
    IF NumNodes(g) = 0 \/ Len(g.edge_features) = 0
    THEN g
    ELSE LET new_nodes == [n \in 1 .. NumNodes(g) |-> g.nodes[n] + 1]
             upd == node_update_mask(g, mask)
         IN  [g EXCEPT !.nodes = [n \in 1 .. NumNodes(g) |->
                                     IF upd[n] THEN new_nodes[n] ELSE g.nodes[n]]]

RECURSIVE PropagateRounds(_, _, _)
PropagateRounds(g, mask, k) ==
    IF k = 0 THEN g ELSE PropagateRounds(Propagator(g, mask), mask, k - 1)

\* MultilayerPropagator.forward: propagate_steps rounds in sequence
MultilayerPropagator(g, mask) == PropagateRounds(g, mask, propagate_steps)

(***************************************************************************)
(* NodeAdder                                                               *)
(***************************************************************************)
\* (a variant that never masks the terminate class)
node_classes_unmasked(g) == sample_softmax(0 .. n_node_types, {})

\* the classes NodeAdder can sample in generation: terminate (0) and the
\* node types 1..n_node_types; the terminate logit is -inf on an empty graph
node_classes(g) ==
    sample_softmax(0 .. n_node_types, IF NumNodes(g) = 0 THEN {0} ELSE {})

\* (a variant that forgets the old flags)
node_running_selected(g, selected_type) == [b \in Batch |-> selected_type[b] # 0]

\* the running flags after the node-type decision
node_running(g, selected_type) ==
    [b \in Batch |-> (selected_type[b] # 0) /\ g.running[b]]

\* (a variant that marks every running row in every new column)
one_hot_row_any(b, mask) == [k \in 1 .. Count(mask) |-> mask[b]]

\* the owner-mask columns of the new nodes:
\* F.one_hot(mask.nonzero(), batch_size).transpose(0, 1), row b
one_hot_row(b, mask) == [k \in 1 .. Count(mask) |-> Nonzero(mask)[k] = b]

\* (a variant that numbers the new nodes from zero)
index_seq_local(g, mask) == [k \in 1 .. Count(mask) |-> k - 1]

\* the global indices of the new nodes: torch.arange(mask.long().sum()) plus
\* the number of nodes the graph holds
index_seq(g, mask) == [k \in 1 .. Count(mask) |-> (k - 1) + NumNodes(g)]

\* NodeAdder.forward after the class of every batch element is selected
NodeAdder(g0, selected_type) ==
    LET g    == MultilayerPropagator(g0, g0.running)
        mask == node_running(g, selected_type)
        gr   == [g EXCEPT !.running = mask]
        last_nodes == [b \in Batch |-> IF mask[b] THEN index_seq(g, mask)[Rank(b, mask) + 1]
                                        ELSE 0]
    IN  IF ~ Any(mask)
        THEN gr
        ELSE [gr EXCEPT
                !.last_inserted_node =
                    [b \in Batch |-> IF mask[b] THEN last_nodes[b]
                                     ELSE g.last_inserted_node[b]],
                !.nodes       = g.nodes \o [k \in 1 .. Count(mask) |-> 0],
                !.owner_masks = [b \in Batch |-> g.owner_masks[b] \o one_hot_row(b, mask)],
                !.node_types  = g.node_types \o
                                [k \in 1 .. Count(mask) |->
                                    ByteMinus1(Masked(selected_type, mask)[k])]]

(***************************************************************************)
(* EdgeAdder                                                               *)
(***************************************************************************)
\* decoding of the selected flat index
selected_type_of(selected_edge) == selected_edge % n_edge_dtypes
\* (a variant that keeps the flat index as the target)
selected_other_flat(selected_edge) == selected_edge
selected_other_of(selected_edge) == selected_edge \div n_edge_dtypes

\* (a variant that never forces termination)
cap_reached_never(max_edges, index) == FALSE

\* (a variant that forces termination one step late)
cap_reached_late(max_edges, index) == max_edges # None /\ index > max_edges

\* the step cap of generation: need_to_add is forced to zero at the limit
cap_reached(max_edges, index) == max_edges # None /\ index >= max_edges

\* the assertion of the teacher-forced loop
edge_assert(max_edges, index) == max_edges = None \/ index < max_edges

\* the edges one loop iteration appends, for the elements still running
EdgeAppend(g, run, selected_edge) ==
    LET sel == Nonzero(run)
        cnt == Count(run)
        type(k) == selected_type_of(selected_edge[sel[k]])
    IN  [g EXCEPT
            !.edge_dest     = g.edge_dest \o [k \in 1 .. cnt |-> g.last_inserted_node[sel[k]]],
            !.edge_source   = g.edge_source \o
                              [k \in 1 .. cnt |-> selected_other_of(selected_edge[sel[k]])],
            !.edge_features = g.edge_features \o [k \in 1 .. cnt |-> Min0(type(k) - 1)],
            !.edge_types    = g.edge_types \o [k \in 1 .. cnt |-> type(k) % ByteRange]]

(***************************************************************************)
(* GraphGen: the state of one call of forward                              *)
(***************************************************************************)
VARIABLES
    ref_given,      \* forward's ref_output is not None
    batch_given,    \* forward's batch_size is not None
    device_given,   \* forward's device is not None
    n_max_nodes,    \* GraphGen.n_max_nodes (None: no cap)
    n_max_edges,    \* EdgeAdder.n_max_edges (None: no cap)
    horizon,        \* <<rounds, edge steps>> the model explores
    pc,             \* where the call is
    graph,          \* the live Graph of the pass
    i,              \* forward's index into ref_output
    running,        \* EdgeAdder.forward's local running flags
    add_index,      \* EdgeAdder.forward's step index
    edges_before,   \* the number of edges when EdgeAdder.forward was entered
    node_ref,       \* ref_output[i] of the latest NodeAdder call
    edge_ref,       \* reference[add_index] of the latest EdgeAdder iteration
    loss_terms,     \* the loss terms the latest step added
    result,         \* the Graph the call returned
    node_calls,     \* the NodeAdder calls forward has made
    edge_iters,     \* the loop iterations the latest EdgeAdder call has begun
    ref_index,      \* the index of the ref_output entry handed over last
    node_class,     \* selected_type of the latest NodeAdder call
    final,          \* the Graph the latest get_final_graph call returned
    remap           \* one application of remap_pad: label, pad value, result

vars == << ref_given, batch_given, device_given, n_max_nodes, n_max_edges, horizon,
           pc, graph, i, running, add_index, edges_before, node_ref, edge_ref,
           loss_terms, result, node_calls, edge_iters, ref_index, node_class, final,
           remap >>

\* what no step of a forward call touches
aux == << final, remap >>

config == << ref_given, batch_given, device_given, n_max_nodes, n_max_edges, horizon >>

\* a reference entry that was not read
NoRef == << >>

\* no application of remap_pad
NoRemap == << >>

\* The reference is read entry by entry: each entry is chosen when the code
\* reads it, and the lists are taken to hold an entry at every index read.
\* ref_output[i]: one uint8 label per batch element, pad_char for "no node"
RefLabels == [Batch -> (0 .. (n_node_types - 1)) \cup {pad_char}]

\* reference[add_index]: per batch element <<target node, edge type>>, where
\* reference[add_index][0][b] is the first and reference[add_index][1][b] the
\* second component; pad_char for "no edge", and a target is a node of the
\* batch element's own graph
RefEntries(g, b) ==
    {<<pad_char, pad_char>>} \cup (Owned(g, b) \X (0 .. (n_edge_dtypes - 1)))
RefSteps(g) == Picks([b \in Batch |-> RefEntries(g, b)])

Training == ref_given

Init ==
    /\ ref_given \in BOOLEAN
    /\ batch_given \in BOOLEAN
    /\ device_given \in BOOLEAN
    /\ \E r \in 0 .. CapBudget, s \in 0 .. CapBudget :
          /\ r + s <= CapBudget
          /\ horizon = << r, s >>
          /\ n_max_nodes \in {None, r}
          /\ n_max_edges \in {None, s}
    /\ pc = "call"
    /\ graph = NoGraph
    /\ i = 0
    /\ running = [b \in Batch |-> FALSE]
    /\ add_index = 0
    /\ edges_before = 0
    /\ node_ref = NoRef
    /\ edge_ref = NoRef
    /\ loss_terms = << >>
    /\ result = NoGraph
    /\ node_calls = 0
    /\ edge_iters = 0
    /\ ref_index = None
    /\ node_class = NoRef
    /\ final = NoGraph
    /\ remap = NoRemap

\* (a variant that accepts a reference together with batch_size and device)
call_shape_loose(ref, batch, device) ==
    (~ ref /\ (batch /\ device)) \/ (ref /\ (batch = device))

\* the assertion that opens GraphGen.forward
call_shape_ok(ref, batch, device) ==
    (~ ref /\ (batch /\ device)) \/ (ref /\ (~ batch /\ ~ device))

\* GraphGen.forward up to the loop: the assertion, then the empty Graph
Forward ==
    /\ pc = "call"
    /\ IF call_shape_ok(ref_given, batch_given, device_given)
       THEN /\ graph' = Graph(Batch)
            /\ pc' = "loop"
       ELSE /\ graph' = graph
            /\ pc' = "construct_error"
    /\ i' = 0
    /\ UNCHANGED << config, aux, running, add_index, edges_before, node_ref, edge_ref,
                    loss_terms, result, node_calls, edge_iters, ref_index,
                    node_class >>

\* the graph forward returns (first component of its result)
forward_graph(g) == g

\* (a variant that returns the topology-only snapshot)
generate_snapshot(g) == get_final_graph(forward_graph(g))

\* GraphGen.generate: self(None, batch_size, device)[0]
generate(g) == forward_graph(g)

Returned(g) == IF Training THEN forward_graph(g) ELSE generate(g)

\* (a variant that breaks one round late)
node_cap_reached_late(max_nodes, idx) == max_nodes # None /\ max_nodes < idx \div 2

\* the break at the top of forward's loop
node_cap_reached(max_nodes, idx) == max_nodes # None /\ max_nodes <= idx \div 2

\* forward's loop: the node cap is reached
CapBreak ==
    /\ pc = "loop"
    /\ node_cap_reached(n_max_nodes, i)
    /\ pc' = "done"
    /\ result' = Returned(graph)
    /\ UNCHANGED << config, aux, graph, i, running, add_index, edges_before, node_ref,
                    edge_ref, loss_terms, node_calls, edge_iters, ref_index,
                    node_class >>

\* forward's loop: one NodeAdder call and the test of graph.running after it
NodeAdderCall ==
    /\ pc = "loop"
    /\ ~ node_cap_reached(n_max_nodes, i)
    /\ n_max_nodes # None \/ i \div 2 < horizon[1]
    /\ IF Training
       THEN \E reference \in RefLabels :
               LET selected_type == [b \in Batch |-> remap_pad(reference[b], pad_char, Inc8)]
               IN  /\ node_ref' = reference
                   /\ node_class' = selected_type
                   /\ loss_terms' = << masked_loss("node_ce", graph.running) >>
                   /\ graph' = NodeAdder(graph, selected_type)
       ELSE \E selected_type \in [Batch -> node_classes(graph)] :
               /\ node_ref' = NoRef
               /\ node_class' = selected_type
               /\ loss_terms' = << >>
               /\ graph' = NodeAdder(graph, selected_type)
    /\ IF Any(graph'.running)
       THEN /\ pc' = "edge_adder"
            /\ result' = result
       ELSE /\ pc' = "done"
            /\ result' = Returned(graph')
    /\ node_calls' = node_calls + 1
    /\ ref_index' = IF Training THEN i ELSE None
    /\ UNCHANGED << config, aux, i, running, add_index, edges_before, edge_ref,
                    edge_iters >>

\* (a variant that advances i by one entry)
EdgeReturn_single ==
    /\ pc' = "loop"
    /\ i' = i + 1

\* EdgeAdder.forward returns to forward's loop, which advances i
EdgeReturn ==
    /\ pc' = "loop"
    /\ i' = i + 2

\* EdgeAdder.forward up to its loop; an empty reference list returns at once
EdgeAdderEnter ==
    /\ pc = "edge_adder"
    /\ \E empty \in BOOLEAN :
          IF Training /\ empty
          THEN /\ EdgeReturn
               /\ UNCHANGED << running, add_index, edges_before >>
          ELSE /\ ~ empty
               /\ running' = graph.running
               /\ add_index' = 0
               /\ edges_before' = NumEdges(graph)
               /\ pc' = "edge_loop"
               /\ i' = i
    /\ edge_ref' = NoRef
    /\ loss_terms' = << >>
    /\ edge_iters' = 0
    /\ ref_index' = IF Training THEN i + 1 ELSE None
    /\ UNCHANGED << config, aux, graph, node_ref, result, node_calls, node_class >>

\* one iteration of EdgeAdder.forward's loop under teacher forcing
EdgeAdderTrain ==
    /\ pc = "edge_loop"
    /\ Training
    /\ n_max_edges # None \/ add_index < horizon[2]
    /\ LET g == MultilayerPropagator(graph, running) IN
       \E step \in RefSteps(g) :
          /\ edge_ref' = step
          /\ IF ~ edge_assert(n_max_edges, add_index)
             THEN /\ pc' = "assert_failed"
                  /\ graph' = g
                  /\ UNCHANGED << i, running, add_index, loss_terms >>
             ELSE LET need_to_add == [b \in Batch |-> step[b][2] # pad_char]
                      bce == masked_loss("edge_bce", running)
                      run == [b \in Batch |-> running[b] /\ need_to_add[b]]
                      selected_edge == [b \in Batch |->
                          step[b][1] * n_edge_dtypes + remap_pad(step[b][2], pad_char, Ident)]
                  IN  /\ running' = run
                      /\ IF ~ Any(run)
                         THEN /\ graph' = g
                              /\ loss_terms' = << bce >>
                              /\ add_index' = add_index
                              /\ EdgeReturn
                         ELSE /\ graph' = EdgeAppend(g, run, selected_edge)
                              /\ loss_terms' = << bce, masked_loss("edge_ce", run) >>
                              /\ add_index' = add_index + 1
                              /\ UNCHANGED << pc, i >>
    /\ edge_iters' = edge_iters + 1
    /\ UNCHANGED << config, aux, edges_before, node_ref, result, node_calls, ref_index,
                    node_class >>

\* one iteration of EdgeAdder.forward's loop in generation
EdgeAdderSample ==
    /\ pc = "edge_loop"
    /\ ~ Training
    /\ n_max_edges # None \/ add_index < horizon[2]
    /\ LET g == MultilayerPropagator(graph, running) IN
       \E sampled \in [Batch -> BOOLEAN] :
          LET need_to_add == IF cap_reached(n_max_edges, add_index)
                             THEN [b \in Batch |-> FALSE]
                             ELSE sampled
              run == [b \in Batch |-> running[b] /\ need_to_add[b]]
          IN  /\ running' = run
              /\ IF ~ Any(run)
                 THEN /\ graph' = g
                      /\ add_index' = add_index
                      /\ EdgeReturn
                 ELSE \E selected_edge \in Picks([b \in Batch |-> masked_softmax(g, b)]) :
                         /\ graph' = EdgeAppend(g, run, selected_edge)
                         /\ add_index' = add_index + 1
                         /\ UNCHANGED << pc, i >>
    /\ edge_iters' = edge_iters + 1
    /\ UNCHANGED << config, aux, edges_before, node_ref, edge_ref, loss_terms, result,
                    node_calls, ref_index, node_class >>

Next ==
    \/ Forward
    \/ CapBreak
    \/ NodeAdderCall
    \/ EdgeAdderEnter
    \/ EdgeAdderTrain
    \/ EdgeAdderSample

Spec == Init /\ [][Next]_vars

(***************************************************************************)
(* A caller that takes the topology of the live Graph                      *)
(***************************************************************************)
\* graph.get_final_graph() on the Graph of the pass, at any point after the
\* Graph was created; the pass is followed no further once it was taken
GetFinalGraph ==
    /\ pc \in {"loop", "edge_adder", "edge_loop", "assert_failed", "done"}
    /\ final' = get_final_graph(graph)
    /\ pc' = "final"
    /\ UNCHANGED << config, remap, graph, i, running, add_index, edges_before, node_ref,
                    edge_ref, loss_terms, result, node_calls, edge_iters, ref_index,
                    node_class >>

NextFinal ==
    \/ Forward
    \/ CapBreak
    \/ NodeAdderCall
    \/ EdgeAdderEnter
    \/ EdgeAdderTrain
    \/ EdgeAdderSample
    \/ GetFinalGraph

SpecFinal == Init /\ [][NextFinal]_vars

(***************************************************************************)
(* remap_pad on the node labels of a reference                             *)
(***************************************************************************)
\* the values of a torch.uint8 entry
Bytes == 0 .. (ByteRange - 1)

\* one entry t of a uint8 reference tensor and one pad value, before
\* remap_pad is applied; no forward call is under way
InitRemap ==
    /\ ref_given = TRUE
    /\ batch_given = FALSE
    /\ device_given = FALSE
    /\ n_max_nodes = None
    /\ n_max_edges = None
    /\ horizon = << 0, 0 >>
    /\ pc = "call"
    /\ graph = NoGraph
    /\ i = 0
    /\ running = [b \in Batch |-> FALSE]
    /\ add_index = 0
    /\ edges_before = 0
    /\ node_ref = NoRef
    /\ edge_ref = NoRef
    /\ loss_terms = << >>
    /\ result = NoGraph
    /\ node_calls = 0
    /\ edge_iters = 0
    /\ ref_index = None
    /\ node_class = NoRef
    /\ final = NoGraph
    /\ \E t \in Bytes, pad \in Bytes :
          remap = [t |-> t, pad |-> pad, selected_type |-> None, node_type |-> None]

\* NodeAdder.forward, training: selected_type = remap_pad(reference, pad_char)
RemapReference ==
    /\ remap.selected_type = None
    /\ remap' = [remap EXCEPT !.selected_type = remap_pad(remap.t, remap.pad, Inc8)]
    /\ UNCHANGED << config, final, pc, graph, i, running, add_index, edges_before,
                    node_ref, edge_ref, loss_terms, result, node_calls, edge_iters,
                    ref_index, node_class >>

\* NodeAdder.forward: the type stored for a class other than terminate,
\* selected_type[mask].byte() - 1
StoreNodeType ==
    /\ remap.selected_type \notin {None, 0}
    /\ remap.node_type = None
    /\ remap' = [remap EXCEPT !.node_type = ByteMinus1(remap.selected_type)]
    /\ UNCHANGED << config, final, pc, graph, i, running, add_index, edges_before,
                    node_ref, edge_ref, loss_terms, result, node_calls, edge_iters,
                    ref_index, node_class >>

NextRemap ==
    \/ RemapReference
    \/ StoreNodeType

SpecRemap == InitRemap /\ [][NextRemap]_vars

(***************************************************************************)
(* Properties                                                              *)
(***************************************************************************)
\* the pass has created its Graph
Created == pc \notin {"call", "construct_error"}
Generation == ~ Training

\* C1: in every state of a pass (training or generation) every column of
\* owner_masks has exactly one true entry: each node of the global node list
\* is owned by exactly one batch element.
C1_OwnerColumnsOneHot ==
    Created =>
        /\ \A b \in Batch : Len(graph.owner_masks[b]) = NumNodes(graph)
        /\ \A n \in 0 .. (NumNodes(graph) - 1) : Cardinality(Owners(graph, n)) = 1

\* C1 witness: a graph with nodes of both batch elements, an edge, and a node
\* state a Propagator round has updated
C1_Witness ==
    /\ Created
    /\ NumNodes(graph) >= 3
    /\ NumEdges(graph) >= 1
    /\ \A b \in Batch : Owned(graph, b) # {}
    /\ \E n \in 1 .. NumNodes(graph) : graph.nodes[n] > 0

\* C2: running starts true for every batch element and never changes from
\* false to true: across every step the new running[b] implies the old one.
C2_RunningNonIncreasing ==
    [][ /\ (pc = "call" /\ pc' = "loop") => \A b \in Batch : graph'.running[b]
        /\ Created => \A b \in Batch : graph'.running[b] => graph.running[b] ]_vars

\* C2 witness: a NodeAdder call was made after a batch element had retired in
\* the round before, and the element is still retired while another runs
C2_Witness ==
    /\ pc = "edge_adder"
    /\ i = 4
    /\ \E b \in Batch : ~ graph.running[b] /\ Cardinality(Owned(graph, b)) = 1
    /\ \E b \in Batch : graph.running[b]

\* C3: with node cap n_max_nodes = K, the graph generate() returns has at
\* most K nodes owned by each batch element.
C3_NodeCap ==
    (pc = "done" /\ Generation /\ n_max_nodes # None) =>
        \A b \in Batch : Cardinality(Owned(result, b)) <= n_max_nodes

\* C3 witness: generation returned with an element owning exactly K >= 2 nodes
C3_Witness ==
    /\ pc = "done" /\ Generation /\ n_max_nodes # None /\ n_max_nodes >= 2
    /\ \E b \in Batch : Cardinality(Owned(result, b)) = n_max_nodes

\* the edges the current EdgeAdder invocation appended whose destination is
\* the newest node of batch element b
AppendedFor(b) ==
    {k \in (edges_before + 1) .. NumEdges(graph) :
        graph.edge_dest[k] = graph.last_inserted_node[b]}

\* C4: with edge cap n_max_edges = M, in generation one EdgeAdder invocation
\* appends at most M edges whose destination is a batch element's newest node.
C4_EdgeCap ==
    (Created /\ Generation /\ n_max_edges # None) =>
        \A b \in Batch : Cardinality(AppendedFor(b)) <= n_max_edges

\* C4 witness: an invocation has appended exactly M >= 1 edges for an element
C4_Witness ==
    /\ pc = "edge_loop" /\ Generation /\ n_max_edges # None /\ n_max_edges >= 1
    /\ add_index = n_max_edges
    /\ \E b \in Batch : Cardinality(AppendedFor(b)) = n_max_edges

\* C5: in generation every appended edge has a source (target node) index
\* below the node count at the moment of selection, and its destination is
\* last_inserted_node of the batch element it was appended for at that step.
C5_EdgeEndpoints ==
    [][ (pc = "edge_loop" /\ Generation) =>
          \A k \in (NumEdges(graph) + 1) .. NumEdges(graph') :
             /\ graph'.edge_source[k] >= 0
             /\ graph'.edge_source[k] < NumNodes(graph)
             /\ k - NumEdges(graph) <= Count(running')
             /\ graph'.edge_dest[k] =
                   graph.last_inserted_node[Nonzero(running')[k - NumEdges(graph)]] ]_vars

\* C5 witness: generation has appended edges to a graph of at least three
\* nodes, one of them to a node that is not node 0
C5_Witness ==
    /\ pc = "edge_loop" /\ Generation
    /\ NumNodes(graph) >= 3
    /\ NumEdges(graph) > edges_before
    /\ graph.edge_source[NumEdges(graph)] > 0

\* the entries of reference step `step' that request an edge
Requested(step) == {b \in Batch : step[b][2] # pad_char}

\* C6 (as claimed): in training with edge cap M, EdgeAdder's assertion fails
\* only when the reference requests more than M edges, i.e. the reference
\* step at the index the assertion failed at (an index >= M) has a non-pad
\* entry; the all-pad terminating step after at most M edges passes.
C6_AssertOnlyBeyondCap ==
    pc = "assert_failed" =>
        /\ Training /\ n_max_edges # None /\ add_index >= n_max_edges
        /\ Requested(edge_ref) # {}

\* the flag that gates a loss term: graph.running before the node decision,
\* the local running before the need-another-edge decision, the local
\* running after it for the edge-target decision
GateOf(kind) ==
    CASE kind = "node_ce"  -> graph.running
      [] kind = "edge_bce" -> running
      [] kind = "edge_ce"  -> running'

\* a NodeAdder call or an EdgeAdder iteration that adds loss terms
LossStep ==
    /\ Training
    /\ \/ pc = "loop" /\ ~ node_cap_reached(n_max_nodes, i)
       \/ pc = "edge_loop" /\ pc' # "assert_failed"

\* C7 (as claimed): the loss of each decision is the mean over only the
\* batch elements whose liveness flag is true at the decision: the others
\* add nothing to the sum and are not counted in the denominator.
C7_MeanOverRunningOnly ==
    [][ LossStep =>
          \A k \in DOMAIN loss_terms' :
             LET t == loss_terms'[k]
                 live == {b \in Batch : GateOf(t.kind)[b]}
             IN  t.mean.summands = live /\ t.mean.den = Cardinality(live) ]_vars

\* C7 (amended): the loss of each decision is the sum of the per-element
\* losses of the batch elements whose liveness flag is true at the decision,
\* divided by the batch size: the others add nothing to the sum but are
\* counted in the denominator.
C7_GatedSumOverBatch ==
    [][ LossStep =>
          /\ loss_terms' # << >>
          /\ \A k \in DOMAIN loss_terms' :
                LET t == loss_terms'[k]
                    live == {b \in Batch : GateOf(t.kind)[b]}
                IN  t.mean.summands = live /\ t.mean.den = BatchSize ]_vars

\* C7 witness: each kind of decision has added a loss term while a batch
\* element was not live
C7_Witness ==
    /\ Training
    /\ Len(loss_terms) = 2
    /\ Count(loss_terms[2].enabled) = 1
    /\ Count(loss_terms[1].enabled) = 1
    /\ node_ref # NoRef /\ Count(graph.running) = 1

\* C8 (as claimed): generate() returns the topology-only snapshot that
\* get_final_graph() gives for the final live Graph, not the live Graph.
C8_ReturnsSnapshot ==
    (pc = "done" /\ Generation) =>
        /\ result = get_final_graph(graph)
        /\ {"nodes", "edge_features"} \subseteq result.absent

\* C8 (amended): generate() returns the live Graph itself: node_types,
\* edge_source, edge_dest, edge_types and owner_masks together with nodes,
\* edge_features, last_inserted_node and running, no tensor discarded.
C8_ReturnsLiveGraph ==
    (pc = "done" /\ Generation) =>
        /\ result = graph
        /\ result.absent = {}
        /\ Len(result.nodes) = Len(result.node_types)
        /\ Len(result.edge_features) = Len(result.edge_types)

\* C8 witness: generation returned a graph with nodes and edges
C8_Witness ==
    /\ pc = "done" /\ Generation
    /\ Len(result.nodes) >= 3
    /\ Len(result.edge_features) >= 1

\* C9 (as claimed): after generate() returns, every batch element owns at
\* least one node, for every configured node cap.
C9_NeverEmpty ==
    (pc = "done" /\ Generation) => \A b \in Batch : Owned(result, b) # {}

\* C9 (amended): after generate() returns, every batch element owns at least
\* one node, provided the node cap is absent or at least 1.
C9_NeverEmptyUnlessCapZero ==
    (pc = "done" /\ Generation /\ n_max_nodes # 0) =>
        \A b \in Batch : Owned(result, b) # {}

\* C9 witness: generation ended by sampled termination with an element that
\* owns exactly one node
C9_Witness ==
    /\ pc = "done" /\ Generation /\ n_max_nodes # 0
    /\ \A b \in Batch : ~ result.running[b]
    /\ \E b \in Batch : Cardinality(Owned(result, b)) = 1

\* C10: forward fails with a construction error, before any Graph exists,
\* unless the call is reference alone (training) or batch_size and device
\* without reference (generation).
C10_CallShapes ==
    LET training_shape   == ref_given /\ ~ batch_given /\ ~ device_given
        generation_shape == ~ ref_given /\ batch_given /\ device_given
    IN  pc # "call" =>
           IF training_shape \/ generation_shape
           THEN pc # "construct_error" /\ graph # NoGraph
           ELSE pc = "construct_error" /\ graph = NoGraph /\ result = NoGraph

\* C10 witness: a call with a reference together with batch_size and device
\* was rejected
C10_Witness ==
    pc = "construct_error" /\ ref_given /\ batch_given /\ device_given

\* a generation call with a node cap and an edge cap configured
BothCaps == Generation /\ n_max_nodes # None /\ n_max_edges # None

\* C11: in a generation pass with node cap K and edge cap M the work is
\* bounded and the pass ends: forward makes at most K NodeAdder calls, an
\* EdgeAdder call begins at most M + 1 loop iterations, a pass that has not
\* returned can always take its next step, and when it has returned either no
\* batch element is running or K NodeAdder calls were made.
C11_BoundedPass ==
    BothCaps =>
        /\ node_calls <= n_max_nodes
        /\ edge_iters <= n_max_edges + 1
        /\ pc \in {"loop", "edge_adder", "edge_loop"} => ENABLED Next
        /\ pc \in {"call", "construct_error", "loop", "edge_adder", "edge_loop", "done"}
        /\ pc = "done" => (~ Any(result.running) \/ node_calls = n_max_nodes)

\* a capped pass returned at the node cap with an element running, after
\* an EdgeAdder call that used all of its M + 1 iterations
C11_Witness ==
    /\ BothCaps
    /\ pc = "done"
    /\ n_max_nodes >= 1
    /\ n_max_edges >= 1
    /\ node_calls = n_max_nodes
    /\ edge_iters = n_max_edges + 1
    /\ Any(result.running)

\* the tensor fields get_final_graph does not carry over
dropped == {"nodes", "edge_features", "running", "last_inserted_node"}

\* C12: whenever get_final_graph() is called on the live Graph, the Graph it
\* returns holds node_types, edge_source, edge_dest, edge_types and
\* owner_masks equal to the live Graph's at that moment, holds no value for
\* nodes, edge_features, running and last_inserted_node, and the live Graph
\* is the same after the call as before it.
C12_TopologySnapshot ==
    [][ (pc # "final" /\ pc' = "final") =>
            /\ final'.node_types = graph.node_types
            /\ final'.edge_source = graph.edge_source
            /\ final'.edge_dest = graph.edge_dest
            /\ final'.edge_types = graph.edge_types
            /\ final'.owner_masks = graph.owner_masks
            /\ final'.absent = dropped
            /\ graph' = graph ]_vars

\* a snapshot was taken of a live Graph with nodes and edges while an
\* element was still running
C12_Witness ==
    /\ pc = "final"
    /\ NumNodes(graph) > 0
    /\ NumEdges(graph) > 0
    /\ Any(graph.running)
    /\ graph.absent = {}
    /\ final.edge_source = graph.edge_source
    /\ final.owner_masks = graph.owner_masks

\* C13: for every uint8 label t and every pad value, remap_pad with its
\* default transform maps the pad value to class 0, and maps any other label
\* to a class whose predecessor (in uint8 arithmetic, as NodeAdder computes
\* the stored node type) is the label; so a node type NodeAdder stores under
\* teacher forcing equals the reference label.
C13_RemapInvertible ==
    (remap # NoRemap /\ remap.selected_type # None) =>
        /\ remap.t = remap.pad => remap.selected_type = 0
        /\ remap.t # remap.pad => ByteMinus1(remap.selected_type) = remap.t
        /\ remap.node_type # None => remap.node_type = remap.t

\* a non-pad label was remapped and the type stored for it, next to the
\* default pad value
C13_Witness ==
    /\ remap # NoRemap
    /\ remap.pad = pad_char
    /\ remap.t = n_node_types - 1
    /\ remap.selected_type = n_node_types
    /\ remap.node_type = remap.t

\* the edges (1-based positions) a step appended
Appended == (NumEdges(graph) + 1) .. NumEdges(graph')

\* C14: from a state in which running[b] is false, no step of the pass
\* (NodeAdder call, EdgeAdder entry or iteration, with the Propagator rounds
\* they run) appends a node owned by b, changes last_inserted_node[b],
\* changes the state of a node owned by b, or appends an edge for b: b is not
\* among the elements the appending iteration serves, and no appended edge
\* ends at b's newest node.
C14_RetiredFrozen ==
    [][ Created =>
          \A b \in Batch :
             ~ graph.running[b] =>
                /\ Owned(graph', b) = Owned(graph, b)
                /\ graph'.last_inserted_node[b] = graph.last_inserted_node[b]
                /\ \A n \in Owned(graph, b) : graph'.nodes[n + 1] = graph.nodes[n + 1]
                /\ \A k \in Appended :
                      /\ ~ running'[b]
                      /\ graph.last_inserted_node[b] \in Owned(graph, b) =>
                            graph'.edge_dest[k] # graph.last_inserted_node[b] ]_vars

\* an element retired with a node of its own, and after that an EdgeAdder
\* iteration propagated to the nodes of a running element and appended an
\* edge for it
C14_Witness ==
    /\ pc = "edge_loop"
    /\ NumEdges(graph) > edges_before
    /\ \E b \in Batch, c \in Batch :
          /\ ~ graph.running[b]
          /\ graph.running[c]
          /\ \E n \in Owned(graph, b), m \in Owned(graph, c) :
                /\ n < BatchSize
                /\ m < BatchSize
                /\ graph.nodes[m + 1] > graph.nodes[n + 1]

\* C15: in every state of a generation pass, for every edge of the graph the
\* source node and the destination node are owned by the same batch element.
C15_EdgeWithinOwner ==
    (Generation /\ Created) =>
        \A k \in 1 .. NumEdges(graph) :
            /\ graph.edge_source[k] \in 0 .. (NumNodes(graph) - 1)
            /\ graph.edge_dest[k] \in 0 .. (NumNodes(graph) - 1)
            /\ Owners(graph, graph.edge_source[k]) = Owners(graph, graph.edge_dest[k])

\* a generation pass appended edges for two batch elements, one of them
\* between two different nodes
C15_Witness ==
    /\ Generation
    /\ Created
    /\ NumNodes(graph) > BatchSize
    /\ \E k \in 1 .. NumEdges(graph), l \in 1 .. NumEdges(graph) :
          /\ Owners(graph, graph.edge_dest[k]) # Owners(graph, graph.edge_dest[l])
          /\ graph.edge_source[k] # graph.edge_dest[k]

\* C16: a NodeAdder call (training or generation) appends exactly one node
\* for every batch element that is running after its decision, which are the
\* elements that were running before and whose selected class is not
\* terminate, and no node for any other element; the new node of such an
\* element is owned by that element alone, and its global index becomes the
\* element's last_inserted_node; last_inserted_node of every other element
\* stays as it was.
C16_OneNodePerRunning ==
    [][ node_calls' # node_calls =>
          LET old == 0 .. (NumNodes(graph) - 1)
              new == (0 .. (NumNodes(graph') - 1)) \ old
          IN  /\ Cardinality(new) = Count(graph'.running)
              /\ \A n \in new : Cardinality(Owners(graph', n)) = 1
              /\ \A b \in Batch :
                    /\ graph'.running[b] <=> (graph.running[b] /\ node_class'[b] # 0)
                    /\ graph'.running[b] =>
                          /\ graph'.last_inserted_node[b] \in new
                          /\ Owned(graph', b) = Owned(graph, b) \cup
                                                   {graph'.last_inserted_node[b]}
                    /\ ~ graph'.running[b] =>
                          /\ Owned(graph', b) = Owned(graph, b)
                          /\ graph'.last_inserted_node[b] = graph.last_inserted_node[b] ]_vars

\* a NodeAdder call on a graph that held nodes appended a node for one
\* element and none for an element it retired
C16_Witness ==
    /\ pc = "edge_adder"
    /\ node_calls >= 2
    /\ \E b \in Batch, c \in Batch :
          /\ graph.running[b]
          /\ graph.last_inserted_node[b] = NumNodes(graph) - 1
          /\ graph.last_inserted_node[b] >= BatchSize
          /\ ~ graph.running[c]
          /\ node_class[c] = 0
          /\ Owned(graph, c) # {}

\* the elements a teacher-forced edge step asks an edge for: still
\* edge-running when the step begins, and a non-pad entry in the step
Served == [b \in Batch |-> running[b] /\ edge_ref'[b][2] # pad_char]

\* C17: in every teacher-forced edge step the loop processes (its assertion
\* passed), exactly one edge is appended for each batch element that is
\* still edge-running and whose entry is not pad, in batch order: its source
\* is the entry's target index, its type the entry's edge type, its
\* destination the element's newest node; no edge is appended for an element
\* with a pad entry or one that is no longer edge-running.
C17_ReferenceEdges ==
    [][ (Training /\ pc = "edge_loop" /\ edge_iters' # edge_iters /\ pc' # "assert_failed") =>
          /\ NumEdges(graph') = NumEdges(graph) + Count(Served)
          /\ \A b \in Batch :
                Served[b] =>
                   LET k == NumEdges(graph) + Rank(b, Served) + 1
                   IN  /\ graph'.edge_source[k] = edge_ref'[b][1]
                       /\ graph'.edge_types[k] = edge_ref'[b][2]
                       /\ graph'.edge_dest[k] = graph.last_inserted_node[b] ]_vars

\* a teacher-forced step appended an edge of the highest type to a target
\* other than node 0 for one element, and none for an element with a pad entry
\* that was still edge-running
C17_Witness ==
    /\ Training
    /\ pc = "edge_loop"
    /\ add_index >= 1
    /\ NumEdges(graph) >= 1
    /\ \E b \in Batch, c \in Batch :
          /\ running[b]
          /\ edge_ref[b] = << graph.edge_source[NumEdges(graph)], n_edge_dtypes - 1 >>
          /\ edge_ref[b][1] >= 1
          /\ graph.edge_types[NumEdges(graph)] = n_edge_dtypes - 1
          /\ graph.running[c]
          /\ ~ running[c]
          /\ edge_ref[c][2] = pad_char
          /\ NumEdges(graph) = edges_before + 1

\* the flags a Propagator round of the next step is called with:
\* EdgeAdder.forward passes its local flags, NodeAdder.forward none
ActiveFlags == IF pc = "edge_loop" THEN running ELSE graph.running

\* one Propagator round on g with the flags `mask' changes no field but
\* nodes, changes the state of no node whose owner is not flagged, and
\* changes nothing at all when g has no node or no edge
RoundFrame(g, mask) ==
    LET h == Propagator(g, mask)
    IN  /\ [h EXCEPT !.nodes = g.nodes] = g
        /\ NumNodes(h) = NumNodes(g)
        /\ \A n \in 1 .. NumNodes(g) :
              h.nodes[n] # g.nodes[n] => \E b \in Batch : mask[b] /\ g.owner_masks[b][n]
        /\ (NumNodes(g) = 0 \/ NumEdges(g) = 0) => h = g

\* C18: on every graph a pass reaches and for every choice of flags
\* (graph.running or an override), a Propagator round changes only the
\* states of nodes owned by a flagged batch element and leaves every other
\* node state and every other field unchanged, and it changes nothing when
\* the graph has no node or no edge; accordingly, across any step of a pass a
\* node changes its state only if the graph had an edge and the node's owner
\* is flagged in the flags the step's Propagator rounds are called with.
C18_PropagatorFrame ==
    [][ Created =>
          /\ \A mask \in [Batch -> BOOLEAN] : RoundFrame(graph, mask)
          /\ \A n \in 1 .. NumNodes(graph) :
                graph'.nodes[n] # graph.nodes[n] =>
                   /\ NumEdges(graph) > 0
                   /\ \E b \in Batch : ActiveFlags[b] /\ graph.owner_masks[b][n] ]_vars

\* two elements are both still running, but the rounds EdgeAdder ran with
\* its local flags updated the first node of only one of them
C18_Witness ==
    /\ Created
    /\ graph.absent = {}
    /\ \E b \in Batch, c \in Batch :
          /\ graph.running[b]
          /\ graph.running[c]
          /\ \E n \in Owned(graph, b), m \in Owned(graph, c) :
                /\ n < BatchSize
                /\ m < BatchSize
                /\ graph.nodes[m + 1] > graph.nodes[n + 1]

\* the step is a call of NodeAdder / a call of EdgeAdder by forward's loop
NodeAdderStep == node_calls' # node_calls
EdgeAdderStep == pc = "edge_adder" /\ pc' # "edge_adder"

\* C19: forward alternates NodeAdder and EdgeAdder.  EdgeAdder is called
\* only as the step right after a NodeAdder call that left an element
\* running, and such a NodeAdder call is followed by nothing else; a
\* NodeAdder call that leaves no element running ends the pass at once; a
\* NodeAdder call is made only at the start of a round, never right after
\* another; and under teacher forcing the NodeAdder call of round r
\* (r = 0, 1, ..) is given ref_output[2r] and the EdgeAdder call of that
\* round ref_output[2r + 1].
C19_Alternation ==
    [][ /\ NodeAdderStep =>
             /\ pc = "loop"
             /\ pc' = IF Any(graph'.running) THEN "edge_adder" ELSE "done"
             /\ pc' = "done" => result' = graph'
             /\ Training => ref_index' = 2 * node_calls
        /\ pc' = "edge_adder" => (NodeAdderStep /\ Any(graph'.running))
        /\ pc = "edge_adder" =>
             /\ EdgeAdderStep
             /\ ~ NodeAdderStep
             /\ graph' = graph
             /\ Any(graph.running)
             /\ Training => ref_index' = 2 * (node_calls - 1) + 1
        /\ pc' = "loop" =>
             \/ pc = "call"
             \/ pc \in {"edge_adder", "edge_loop"} /\ i' = 2 * node_calls ]_vars

\* a teacher-forced pass in its second round: NodeAdder got entry 2, left an
\* element running, and EdgeAdder was called with entry 3
C19_Witness ==
    /\ Training
    /\ pc = "edge_loop"
    /\ node_calls = 2
    /\ ref_index = 3
    /\ i = 2
    /\ Any(graph.running)

\* C20: in every state of a generation pass no edge of the graph is a
\* self-loop: the source of an edge, the target EdgeAdder selected, is never
\* the node the edge ends at, the newest node of its batch element.
C20_NoSelfLoop ==
    (Generation /\ Created) =>
        \A k \in 1 .. NumEdges(graph) : graph.edge_source[k] # graph.edge_dest[k]

=============================================================================
